---- MODULE Spec2Model ----
(***************************************************************************)
(* Place lifecycle workflows of controllers/places-controller.js           *)
(* (createPlace, updatePlace, deletePlace and the three read handlers)     *)
(* over the Place and User collections of models/place.js, models/user.js. *)
(*                                                                         *)
(* Every handler is an async function.  One action of this model is the    *)
(* resolution of the promise a request is awaiting together with the       *)
(* synchronous code that follows it, up to and including the next call     *)
(* that is awaited (or the response).  Requests interleave only at awaits. *)
(* A promise resolves with a value or rejects; both are inputs of the      *)
(* action.                                                                 *)
(*                                                                         *)
(* Writes made with { session } are buffered in the request's transaction  *)
(* and reach the committed collections only when commitTransaction         *)
(* succeeds.  Mongoose array push/pull are sent as $push / $pull deltas.   *)
(* Every awaited call may reject; that covers a write conflict between two *)
(* sessions, which the store reports as a rejected write.  The handlers    *)
(* never abort a session: after a rejection it stays as it was.            *)
(***************************************************************************)
EXTENDS Naturals, Sequences, FiniteSets, TLC

\* ---------------------------------------------------------------- bounds
MaxActive == 2     \* requests in flight at the same time
MaxPlaces == 2     \* uploads (and so Place ids) handed out in one behaviour

Req == 1 .. MaxActive       \* request slots, reused once a handler has returned
PlaceIds == 1 .. MaxPlaces

\* ------------------------------------------------------------ input sets
Users == {"u1", "u2"}                  \* ids of the User documents
Callers == Users \cup {"ghost"}        \* req.userData.userId; "ghost" names no User
                                       \* (to updatePlace and deletePlace it is one
                                       \* more id that is not the creator's, so they
                                       \* are called with the ids in Users)
UserNames == {"n1", "n2", "nobody"}    \* req.params.username
CreateBodies == {[title |-> "t1", description |-> "d1", address |-> "a1"]}
UpdateBodies == {[title |-> "t2", description |-> "d2"]}

Null == [null |-> TRUE]                \* a query that finds nothing
Undefined == <<"undefined">>           \* the JavaScript value undefined

FileId(n) == <<"fileId", n>>           \* result.fileId of the n-th upload
Url(n) == <<"url", n>>                 \* result.url of the n-th upload

NameOf(u) == IF u = "u1" THEN "n1" ELSE "n2"

VARIABLES
  places,    \* committed Place collection: _id -> document
  users,     \* committed User collection: _id -> document
  images,    \* file ids held by the image store
  nextId,    \* number of the next upload / Place id
  deleted,   \* ids of the Places whose deletion has been acknowledged (200)
  pc,        \* per request: the promise it awaits, or "idle", "done", "crashed"
  req,       \* per request: handler and inputs
  local,     \* per request: the handler's variables place, user
  txn,       \* per request: "none", "open" or "committed"
  txnOps,    \* per request: writes buffered in its session
  effects,   \* per request: calls made to collaborators, in order, each with
             \* how it settled
  resp       \* per request: outcomes delivered to the caller, in order

vars == <<places, users, images, nextId, deleted, pc, req, local, txn, txnOps,
          effects, resp>>

store == <<places, users, images>>

\* ------------------------------------------------------------- documents
\* models/user.js: the User documents this deployment holds.
UserDoc(u) ==
  [_id |-> u, name |-> NameOf(u), email |-> <<"email", u>>,
   password |-> <<"password", u>>,
   image |-> [url |-> <<"avatar", u>>, fileId |-> <<"avatarFile", u>>],
   places |-> <<>>]

\* Paths the schemas declare with select: false.
PlaceHidden == {<<"image", "fileId">>}
UserHidden == {<<"password">>, <<"image", "fileId">>}

\* What a query returns of a stored document when no projection is given:
\* every path except the select: false ones.
Project(d, hidden) ==
  [k \in {f \in DOMAIN d : <<f>> \notin hidden} |->
     IF k = "image"
       THEN [j \in {f \in DOMAIN d.image : <<k, f>> \notin hidden} |-> d.image[j]]
       ELSE d[k]]

\* Place.findById(id) / User.findById(id) on the committed collections.
PlaceFindById(id) ==
  IF id \in DOMAIN places THEN Project(places[id], PlaceHidden) ELSE Null

UserFindById(id) ==
  IF id \in DOMAIN users THEN Project(users[id], UserHidden) ELSE Null

\* Place.findById(id).select("image.fileId").populate("creator"): an inclusive
\* projection (_id, image.fileId, and the populated path), the creator replaced
\* by the User document it names.
PlaceFindByIdWithCreator(id) ==
  IF id \in DOMAIN places
    THEN [_id |-> id,
          image |-> [fileId |-> places[id].image.fileId],
          creator |-> UserFindById(places[id].creator)]
    ELSE Null

\* getCoordinatesForAddress(address), when it resolves.
Coordinates(address) ==
  [address |-> <<"resolved", address>>, lat |-> "37.422", lng |-> "-122.084"]

\* new Place({...}) of createPlace, lines 122-129; n is the number of the
\* upload, which also stands for the _id the constructor assigns.
NewPlace(n, body, caller) ==
  [_id |-> n,
   title |-> body.title,
   description |-> body.description,
   address |-> Coordinates(body.address).address,
   location |-> [lat |-> Coordinates(body.address).lat,
                 lng |-> Coordinates(body.address).lng],
   image |-> [url |-> Url(n), fileId |-> FileId(n)],
   creator |-> caller]

\* --------------------------------------------------------- serialisation
\* The key paths of the JSON text res.json sends for a document given as
\* toObject({ getters: true }): the id virtual is added, keys whose value is
\* undefined are dropped by JSON.stringify.
ImagePaths(img) == {<<"image", j>> : j \in {f \in DOMAIN img : img[f] # Undefined}}

DocPaths(d) ==
  {<<"id">>}
  \cup {<<k>> : k \in DOMAIN d \ {"image", "location"}}
  \cup (IF "image" \in DOMAIN d THEN ImagePaths(d.image) ELSE {})
  \cup (IF "location" \in DOMAIN d
          THEN {<<"location", j>> : j \in DOMAIN d.location} ELSE {})

Prefix(p, paths) == {p \o q : q \in paths}

\* new HttpError(message, code) handed to next(): the caller gets the code and
\* the message.
HttpError(code) == [status |-> code, body |-> {<<"message">>}]

Json(code, paths) == [status |-> code, body |-> paths]

\* ----------------------------------------------------------- transactions
\* The writes of a committed session, applied to the two collections.
RECURSIVE ApplyPlaces(_, _)
ApplyPlaces(ps, ops) ==
  IF ops = <<>> THEN ps
  ELSE LET w == Head(ops)
           nxt == IF w.kind = "insertPlace"
                    THEN [k \in DOMAIN ps \cup {w.doc._id} |->
                            IF k = w.doc._id THEN w.doc ELSE ps[k]]
                  ELSE IF w.kind = "removePlace"
                    THEN [k \in DOMAIN ps \ {w.id} |-> ps[k]]
                  ELSE ps
       IN ApplyPlaces(nxt, Tail(ops))

Without(seq, x) == SelectSeq(seq, LAMBDA y : y # x)

RECURSIVE ApplyUsers(_, _)
ApplyUsers(us, ops) ==
  IF ops = <<>> THEN us
  ELSE LET w == Head(ops)
           nxt == IF w.kind = "push" /\ w.user \in DOMAIN us
                    THEN [us EXCEPT ![w.user].places = Append(@, w.id)]
                  ELSE IF w.kind = "pull" /\ w.user \in DOMAIN us
                    THEN [us EXCEPT ![w.user].places = Without(@, w.id)]
                  ELSE us
       IN ApplyUsers(nxt, Tail(ops))

\* ------------------------------------------------------------------ state
NoRequest == [op |-> "none"]
NoLocals == [place |-> Null, user |-> Null]

Init ==
  /\ places = <<>>
  /\ users = [u \in Users |-> UserDoc(u)]
  /\ images = {}
  /\ nextId = 1
  /\ deleted = {}
  /\ pc = [r \in Req |-> "idle"]
  /\ req = [r \in Req |-> NoRequest]
  /\ local = [r \in Req |-> NoLocals]
  /\ txn = [r \in Req |-> "none"]
  /\ txnOps = [r \in Req |-> <<>>]
  /\ effects = [r \in Req |-> <<>>]
  /\ resp = [r \in Req |-> <<>>]

Finished(r) == pc[r] \in {"done", "crashed"}

Request(op, caller, pid, body, username) ==
  [op |-> op, caller |-> caller, pid |-> pid, body |-> body, username |-> username]

NoBody == [title |-> "", description |-> ""]

\* A request arrives and its handler starts in a free slot (the lowest one).
Begin(r, request, calls, label, outcomes) ==
  /\ pc[r] = "idle"
  /\ \A q \in Req : q < r => pc[q] # "idle"
  /\ req' = [req EXCEPT ![r] = request]
  /\ effects' = [effects EXCEPT ![r] = calls]
  /\ pc' = [pc EXCEPT ![r] = label]
  /\ resp' = [resp EXCEPT ![r] = outcomes]
  /\ UNCHANGED <<store, nextId, deleted, local, txn, txnOps>>

\* The handler has returned and its outcome has been taken: the slot is free
\* for the next request.  A deleteFile callback that has not run by then is
\* never observed.
Return(r) ==
  /\ Finished(r)
  /\ pc' = [pc EXCEPT ![r] = "idle"]
  /\ req' = [req EXCEPT ![r] = NoRequest]
  /\ local' = [local EXCEPT ![r] = NoLocals]
  /\ txn' = [txn EXCEPT ![r] = "none"]
  /\ txnOps' = [txnOps EXCEPT ![r] = <<>>]
  /\ effects' = [effects EXCEPT ![r] = <<>>]
  /\ resp' = [resp EXCEPT ![r] = <<>>]
  /\ UNCHANGED <<store, nextId, deleted>>

Call(name) == [call |-> name, result |-> "pending"]
Sync(name) == [call |-> name, result |-> "ok"]

\* The promise a handler awaits is the last call it made.
Settle(log, result) ==
  IF log = <<>> THEN log ELSE [log EXCEPT ![Len(log)].result = result]

\* One synchronous stretch of a handler: the awaited promise settles, the
\* handler makes its next calls and delivers its outcomes (next(error) or
\* res.json), and then awaits label.
Step(r, result, calls, label, outcomes) ==
  /\ effects' = [effects EXCEPT ![r] = Settle(@, result) \o calls]
  /\ pc' = [pc EXCEPT ![r] = label]
  /\ resp' = [resp EXCEPT ![r] = @ \o outcomes]

\* The awaited promise resolved and the handler awaits the next call.
Await(r, calls, label) == Step(r, "ok", calls, label, <<>>)
\* The awaited promise rejected and the handler's catch hands err to next().
Fail(r, err) == Step(r, "rejected", <<>>, "done", <<err>>)
\* The awaited promise resolved and the handler ends with one outcome.
Reply(r, outcome) == Step(r, "ok", <<>>, "done", <<outcome>>)

\* ------------------------------------------------------------ createPlace
\* Creations that have not had their upload numbered yet.
AwaitingUpload == {q \in Req : pc[q] \in {"geocode", "upload"}}

\* Lines 78-88: validation, then the geocoding call.
CreateBegin(r) ==
  /\ nextId + Cardinality(AwaitingUpload) <= MaxPlaces
  /\ \E caller \in Callers, body \in CreateBodies, valid \in BOOLEAN :
       IF valid
         THEN Begin(r, Request("createPlace", caller, 0, body, "none"),
                    <<Call("getCoordinatesForAddress")>>, "geocode", <<>>)
         ELSE Begin(r, Request("createPlace", caller, 0, body, "none"),
                    <<>>, "done", <<HttpError(422)>>)

\* The errors getCoordinatesForAddress rejects with (it builds them itself).
GeocodeErrors == {HttpError(422), HttpError(500)}

\* GeocodeRejected with the return of line 90 lost: the error is handed to
\* next() and the handler carries on to the upload.
GeocodeRejected_NoReturn(r) ==
  /\ \E e \in GeocodeErrors :
       Step(r, "rejected", <<Call("imagekit.upload")>>, "upload", <<e>>)
  /\ UNCHANGED <<store, nextId, deleted, req, local, txn, txnOps>>

\* Lines 89-91: catch (error) { return next(error); }
GeocodeRejected(r) ==
  /\ \E e \in GeocodeErrors : Fail(r, e)
  /\ UNCHANGED <<store, nextId, deleted, req, local, txn, txnOps>>

\* Lines 86-116: geocoding settled; on success the upload is called.
CreateGeocoded(r) ==
  /\ pc[r] = "geocode"
  /\ \/ GeocodeRejected(r)
     \/ /\ Await(r, <<Call("imagekit.upload")>>, "upload")
        /\ UNCHANGED <<store, nextId, deleted, req, local, txn, txnOps>>

\* UploadRejected with the return of line 119 lost: the handler carries on to
\* the creator lookup and the transaction.
UploadRejected_NoReturn(r) ==
  /\ Step(r, "rejected", <<Call("User.findById")>>, "findUser", <<HttpError(500)>>)
  /\ local' = [local EXCEPT ![r].place = NewPlace(nextId, req[r].body, req[r].caller)]
  /\ UNCHANGED <<store, nextId, deleted, req, txn, txnOps>>

\* Lines 117-120: catch (err) { return next(new HttpError(err.message, 500)); }
UploadRejected(r) ==
  /\ Fail(r, HttpError(500))
  /\ UNCHANGED <<store, nextId, deleted, req, local, txn, txnOps>>

\* Lines 103-133: the upload settled; on success the image store holds the
\* file, the Place is constructed and the creator is looked up.
CreateUploaded(r) ==
  /\ pc[r] = "upload"
  /\ \/ UploadRejected(r)
     \/ /\ images' = images \cup {FileId(nextId)}
        /\ nextId' = nextId + 1
        /\ local' = [local EXCEPT
                       ![r].place = NewPlace(nextId, req[r].body, req[r].caller)]
        /\ Await(r, <<Call("User.findById")>>, "findUser")
        /\ UNCHANGED <<places, users, deleted, req, txn, txnOps>>

\* Lines 131-151: the creator lookup settled.
CreateUserFound(r) ==
  /\ pc[r] = "findUser"
  /\ \/ /\ Fail(r, HttpError(404))
        /\ UNCHANGED local
     \/ LET user == UserFindById(req[r].caller) IN
          /\ local' = [local EXCEPT ![r].user = user]
          /\ IF user = Null
               THEN Reply(r, HttpError(404))
               ELSE Await(r, <<Call("startSession")>>, "session")
  /\ UNCHANGED <<store, nextId, deleted, req, txn, txnOps>>

\* Lines 151-153: the session exists; the transaction is started and the
\* Place saved in it.  From here on a rejection lands in the catch of lines
\* 157-163, which reports 500 and leaves the session as it is.
CreateSessionStarted(r) ==
  /\ pc[r] = "session"
  /\ \/ /\ Fail(r, HttpError(500))
        /\ UNCHANGED txn
     \/ /\ txn' = [txn EXCEPT ![r] = "open"]
        /\ Await(r, <<Sync("startTransaction"), Call("createdPlace.save")>>,
                 "savePlace")
  /\ UNCHANGED <<store, nextId, deleted, req, local, txnOps>>

\* PlaceInsert with the creator not taken from the authenticated caller.
PlaceInsert_OtherCreator(r) ==
  [kind |-> "insertPlace", doc |-> [local[r].place EXCEPT !.creator = "u1"]]

\* Line 153: createdPlace.save({ session }) as the write it sends.
PlaceInsert(r) == [kind |-> "insertPlace", doc |-> local[r].place]

\* UserPush with the push of line 154 left out: the save sends nothing.
UserPush_Missing(r) == [kind |-> "none"]

\* Lines 154-155: user.places.push(createdPlace); user.save({ session }), sent
\* as a $push of the new id on the User document.
UserPush(r) ==
  [kind |-> "push", user |-> local[r].user._id, id |-> local[r].place._id]

\* CreatePlaceSaved with the save of line 153 made outside the session: the
\* insert is visible at once.
CreatePlaceSaved_NoSession(r) ==
  /\ pc[r] = "savePlace"
  /\ \/ /\ Fail(r, HttpError(500))
        /\ UNCHANGED places
     \/ /\ places' = ApplyPlaces(places, <<PlaceInsert(r)>>)
        /\ Await(r, <<Call("user.save")>>, "saveUser")
  /\ UNCHANGED <<users, images, nextId, deleted, req, local, txn, txnOps>>

\* Lines 153-155.
CreatePlaceSaved(r) ==
  /\ pc[r] = "savePlace"
  /\ \/ /\ Fail(r, HttpError(500))
        /\ UNCHANGED txnOps
     \/ /\ txnOps' = [txnOps EXCEPT ![r] = Append(@, PlaceInsert(r))]
        /\ Await(r, <<Call("user.save")>>, "saveUser")
  /\ UNCHANGED <<store, nextId, deleted, req, local, txn>>

\* Lines 155-156.
CreateUserSaved(r) ==
  /\ pc[r] = "saveUser"
  /\ \/ /\ Fail(r, HttpError(500))
        /\ UNCHANGED txnOps
     \/ /\ txnOps' = [txnOps EXCEPT ![r] = Append(@, UserPush(r))]
        /\ Await(r, <<Call("commitTransaction")>>, "commit")
  /\ UNCHANGED <<store, nextId, deleted, req, local, txn>>

\* CreateResponsePlace without the rebuilt image: the document as constructed.
CreateResponsePlace_AsStored(place) == place

\* Lines 166-170: the response copy of the created place, image rebuilt as
\* { url, fileId: undefined }.
CreateResponsePlace(place) ==
  [place EXCEPT !.image = [url |-> place.image.url, fileId |-> Undefined]]

\* CreateCommitted with user.save writing the whole places array as the
\* request loaded it plus the new id, instead of a $push on the stored one.
CreateCommitted_StaleUser(r) ==
  /\ pc[r] = "commit"
  /\ \/ /\ Fail(r, HttpError(500))
        /\ UNCHANGED <<places, users, txn>>
     \/ /\ places' = ApplyPlaces(places, txnOps[r])
        /\ users' = [users EXCEPT ![local[r].user._id].places =
                       Append(local[r].user.places, local[r].place._id)]
        /\ txn' = [txn EXCEPT ![r] = "committed"]
        /\ Reply(r, Json(201, Prefix(<<"place">>,
                                     DocPaths(CreateResponsePlace(local[r].place)))))
  /\ UNCHANGED <<images, nextId, deleted, req, local, txnOps>>

\* Lines 156-172: the commit settled; on success the buffered writes become
\* visible together and the 201 response is sent.
CreateCommitted(r) ==
  /\ pc[r] = "commit"
  /\ \/ /\ Fail(r, HttpError(500))
        /\ UNCHANGED <<places, users, txn>>
     \/ /\ places' = ApplyPlaces(places, txnOps[r])
        /\ users' = ApplyUsers(users, txnOps[r])
        /\ txn' = [txn EXCEPT ![r] = "committed"]
        /\ Reply(r, Json(201, Prefix(<<"place">>,
                                     DocPaths(CreateResponsePlace(local[r].place)))))
  /\ UNCHANGED <<images, nextId, deleted, req, local, txnOps>>

createPlace(r) ==
  \/ CreateBegin(r)
  \/ CreateGeocoded(r)
  \/ CreateUploaded(r)
  \/ CreateUserFound(r)
  \/ CreateSessionStarted(r)
  \/ CreatePlaceSaved(r)
  \/ CreateUserSaved(r)
  \/ CreateCommitted(r)

\* ------------------------------------------------------------ updatePlace
\* Lines 176-186: validation, then the query.
UpdateBegin(r) ==
  \E caller \in Users, pid \in PlaceIds, body \in UpdateBodies, valid \in BOOLEAN :
    IF valid
      THEN Begin(r, Request("updatePlace", caller, pid, body, "none"),
                 <<Call("Place.findById")>>, "u_find", <<>>)
      ELSE Begin(r, Request("updatePlace", caller, pid, body, "none"),
                 <<>>, "done", <<HttpError(422)>>)

\* Line 195: place.creator.toString() !== req.userData.userId
NotCreator(place, caller) == place.creator # caller

\* Line 195 with place === null: reading place.creator throws a TypeError
\* inside the async handler.  No catch of the handler covers it: the promise
\* the handler returned rejects, and the caller gets either nothing from the
\* handler (the rejection is unhandled) or the framework's own 500.
Throws(r) ==
  \E forwarded \in BOOLEAN :
    Step(r, "ok", <<>>, "crashed",
         IF forwarded THEN <<HttpError(500)>> ELSE <<>>)

\* Lines 186-204: the query settled.
UpdateFound(r) ==
  /\ pc[r] = "u_find"
  /\ \/ /\ Fail(r, HttpError(500))
        /\ UNCHANGED local
     \/ LET place == PlaceFindById(req[r].pid) IN
          /\ local' = [local EXCEPT ![r].place = place]
          /\ IF place = Null THEN Throws(r)
             ELSE IF NotCreator(place, req[r].caller) THEN Reply(r, HttpError(401))
             ELSE Await(r, <<Call("place.save")>>, "u_save")
  /\ UNCHANGED <<store, nextId, deleted, req, txn, txnOps>>

\* Lines 200-201: the paths place.save() sends in its $set, those whose value
\* differs from the loaded one.
Modified(place, body) == {k \in {"title", "description"} : place[k] # body[k]}

\* Assign writing the image back as the query loaded it, without the
\* unselected fileId.
Assign_ImageAsLoaded(doc, body, keys) ==
  [k \in DOMAIN doc |->
     IF k \in keys THEN body[k]
     ELSE IF k = "image" THEN [url |-> doc.image.url, fileId |-> Undefined]
     ELSE doc[k]]

Assign(doc, body, keys) ==
  [k \in DOMAIN doc |-> IF k \in keys THEN body[k] ELSE doc[k]]

\* Lines 203-213: the save settled.  It updates the stored document by _id
\* and rejects when there is none any more.
UpdateSaved(r) ==
  /\ pc[r] = "u_save"
  /\ \/ /\ Fail(r, HttpError(500))
        /\ UNCHANGED places
     \/ /\ req[r].pid \in DOMAIN places
        /\ places' = [places EXCEPT ![req[r].pid] =
                        Assign(@, req[r].body, Modified(local[r].place, req[r].body))]
        /\ Reply(r, Json(200, Prefix(<<"place">>,
                   DocPaths(Assign(local[r].place, req[r].body,
                                   {"title", "description"})))))
  /\ UNCHANGED <<users, images, nextId, deleted, req, local, txn, txnOps>>

updatePlace(r) ==
  \/ UpdateBegin(r)
  \/ UpdateFound(r)
  \/ UpdateSaved(r)

\* ------------------------------------------------------------ deletePlace
\* Lines 217-223: the query is called.
DeleteBegin(r) ==
  \E caller \in Users, pid \in PlaceIds :
    Begin(r, Request("deletePlace", caller, pid, NoBody, "none"),
          <<Call("Place.findById")>>, "d_find", <<>>)

\* NotOwner with the comparison of line 239 never true.
NotOwner_Never(place, caller) == FALSE

\* Line 239: place.creator.id !== req.userData.userId
NotOwner(place, caller) == place.creator._id # caller

\* Lines 219-250: the query settled.  A rejection and an absent Place are
\* both reported as 404.
DeleteFound(r) ==
  /\ pc[r] = "d_find"
  /\ \/ /\ Fail(r, HttpError(404))
        /\ UNCHANGED local
     \/ LET place == PlaceFindByIdWithCreator(req[r].pid) IN
          /\ local' = [local EXCEPT ![r].place = place]
          /\ IF place = Null THEN Reply(r, HttpError(404))
             ELSE IF place.creator = Null THEN Throws(r)
             ELSE IF NotOwner(place, req[r].caller) THEN Reply(r, HttpError(401))
             ELSE Await(r, <<Call("startSession")>>, "d_session")
  /\ UNCHANGED <<store, nextId, deleted, req, txn, txnOps>>

\* Lines 250-252; a rejection from here on lands in the catch of lines
\* 256-262, which reports 500 and leaves the session as it is.
DeleteSessionStarted(r) ==
  /\ pc[r] = "d_session"
  /\ \/ /\ Fail(r, HttpError(500))
        /\ UNCHANGED txn
     \/ /\ txn' = [txn EXCEPT ![r] = "open"]
        /\ Await(r, <<Sync("startTransaction"), Call("place.remove")>>, "d_remove")
  /\ UNCHANGED <<store, nextId, deleted, req, local, txnOps>>

\* PlaceRemove with the remove of line 252 sending nothing.
PlaceRemove_Missing(r) == [kind |-> "none"]

\* Line 252: place.remove({ session }) as the write it sends.
PlaceRemove(r) == [kind |-> "removePlace", id |-> local[r].place._id]

\* CreatorPull with the pull of line 253 left out: the save sends nothing.
CreatorPull_Missing(r) == [kind |-> "none"]

\* Lines 253-254: place.creator.places.pull(place); place.creator.save({
\* session }), sent as a $pull of the id on the User document.
CreatorPull(r) ==
  [kind |-> "pull", user |-> local[r].place.creator._id, id |-> local[r].place._id]

\* Lines 252-254.
DeleteRemoved(r) ==
  /\ pc[r] = "d_remove"
  /\ \/ /\ Fail(r, HttpError(500))
        /\ UNCHANGED txnOps
     \/ /\ txnOps' = [txnOps EXCEPT ![r] = Append(@, PlaceRemove(r))]
        /\ Await(r, <<Call("creator.save")>>, "d_saveUser")
  /\ UNCHANGED <<store, nextId, deleted, req, local, txn>>

\* Lines 254-255.
DeleteUserSaved(r) ==
  /\ pc[r] = "d_saveUser"
  /\ \/ /\ Fail(r, HttpError(500))
        /\ UNCHANGED txnOps
     \/ /\ txnOps' = [txnOps EXCEPT ![r] = Append(@, CreatorPull(r))]
        /\ Await(r, <<Call("commitTransaction")>>, "d_commit")
  /\ UNCHANGED <<store, nextId, deleted, req, local, txn>>

\* DeleteCommitted with the return of line 261 left out: after a failed
\* commit the handler goes on to deleteFile and the confirmation.
DeleteCommitted_NoReturn(r) ==
  /\ pc[r] = "d_commit"
  /\ \/ /\ Step(r, "rejected", <<Call("imagekit.deleteFile")>>, "done",
                <<HttpError(500), Json(200, {<<"message">>})>>)
        /\ UNCHANGED <<places, users, txn, deleted>>
     \/ /\ places' = ApplyPlaces(places, txnOps[r])
        /\ users' = ApplyUsers(users, txnOps[r])
        /\ txn' = [txn EXCEPT ![r] = "committed"]
        /\ deleted' = deleted \cup {req[r].pid}
        /\ Step(r, "ok", <<Call("imagekit.deleteFile")>>, "done",
                <<Json(200, {<<"message">>})>>)
  /\ UNCHANGED <<images, nextId, req, local, txnOps>>

\* Lines 255-274: the commit settled; on success the buffered writes become
\* visible together, deleteFile is called with a callback and, without
\* waiting for it, the confirmation is sent.
DeleteCommitted(r) ==
  /\ pc[r] = "d_commit"
  /\ \/ /\ Fail(r, HttpError(500))
        /\ UNCHANGED <<places, users, txn, deleted>>
     \/ /\ places' = ApplyPlaces(places, txnOps[r])
        /\ users' = ApplyUsers(users, txnOps[r])
        /\ txn' = [txn EXCEPT ![r] = "committed"]
        /\ deleted' = deleted \cup {req[r].pid}
        /\ Step(r, "ok", <<Call("imagekit.deleteFile")>>, "done",
                <<Json(200, {<<"message">>})>>)
  /\ UNCHANGED <<images, nextId, req, local, txnOps>>

\* The deleteFile call of request r is still running.
DeleteFilePending(r) ==
  /\ effects[r] # <<>>
  /\ effects[r][Len(effects[r])] = Call("imagekit.deleteFile")

\* DeleteFileCallback handing the image store's error to next() instead of
\* logging it.
DeleteFileCallback_Propagates(r) ==
  /\ DeleteFilePending(r)
  /\ \E error \in BOOLEAN :
       /\ effects' = [effects EXCEPT
                        ![r] = Settle(@, IF error THEN "rejected" ELSE "ok")]
       /\ images' = IF error THEN images
                    ELSE images \ {local[r].place.image.fileId}
       /\ resp' = IF error THEN [resp EXCEPT ![r] = Append(@, HttpError(500))]
                  ELSE resp
  /\ UNCHANGED <<places, users, nextId, deleted, pc, req, local, txn, txnOps>>

\* Lines 270-272: the callback of deleteFile runs; an error is logged.
DeleteFileCallback(r) ==
  /\ DeleteFilePending(r)
  /\ \E error \in BOOLEAN :
       /\ effects' = [effects EXCEPT
                        ![r] = Settle(@, IF error THEN "rejected" ELSE "ok")]
       /\ images' = IF error THEN images
                    ELSE images \ {local[r].place.image.fileId}
  /\ UNCHANGED <<places, users, nextId, deleted, pc, req, local, txn, txnOps, resp>>

deletePlace(r) ==
  \/ DeleteBegin(r)
  \/ DeleteFound(r)
  \/ DeleteSessionStarted(r)
  \/ DeleteRemoved(r)
  \/ DeleteUserSaved(r)
  \/ DeleteCommitted(r)
  \/ DeleteFileCallback(r)

\* ---------------------------------------------------------- read handlers
\* Place.find().populate("creator"): every Place, its creator replaced by the
\* User document it names.
PopulatedPlacePaths(id) ==
  (DocPaths(PlaceFindById(id)) \ {<<"creator">>})
  \cup (IF UserFindById(places[id].creator) = Null THEN {<<"creator">>}
        ELSE Prefix(<<"creator">>, DocPaths(UserFindById(places[id].creator))))

\* Lines 10-13.
GetAllPlacesBegin(r) ==
  Begin(r, Request("getAllPlaces", "none", 0, NoBody, "none"),
        <<Call("Place.find")>>, "all_find", <<>>)

\* Lines 13-26 (a resolved find gives an array, which is never falsy).
GetAllPlacesFound(r) ==
  /\ pc[r] = "all_find"
  /\ \/ Fail(r, HttpError(404))
     \/ Reply(r, Json(200, {<<"places">>} \cup
          Prefix(<<"places">>,
                 UNION {PopulatedPlacePaths(id) : id \in DOMAIN places})))
  /\ UNCHANGED <<store, nextId, deleted, req, local, txn, txnOps>>

\* Lines 30-34.
GetPlaceByIdBegin(r) ==
  \E pid \in PlaceIds :
    Begin(r, Request("getPlaceById", "none", pid, NoBody, "none"),
          <<Call("Place.findById")>>, "one_find", <<>>)

\* Lines 34-49.
GetPlaceByIdFound(r) ==
  /\ pc[r] = "one_find"
  /\ \/ Fail(r, HttpError(500))
     \/ LET place == PlaceFindById(req[r].pid) IN
          IF place = Null THEN Reply(r, HttpError(404))
          ELSE Reply(r, Json(200, Prefix(<<"place">>, DocPaths(place))))
  /\ UNCHANGED <<store, nextId, deleted, req, local, txn, txnOps>>

\* User.findOne({ name }).populate("places"): the ids that name no Place are
\* dropped from the populated array.
UserFindOneWithPlaces(name) ==
  IF \E u \in DOMAIN users : users[u].name = name
    THEN LET u == CHOOSE v \in DOMAIN users : users[v].name = name IN
           [Project(users[u], UserHidden) EXCEPT
              !.places = SelectSeq(@, LAMBDA id : id \in DOMAIN places)]
    ELSE Null

\* Lines 53-57.
GetPlacesByUserIdBegin(r) ==
  \E username \in UserNames :
    Begin(r, Request("getPlacesByUserId", "none", 0, NoBody, username),
          <<Call("User.findOne")>>, "user_find", <<>>)

NoPlacesFound_NullOnly(userWithPlaces) ==
  userWithPlaces = Null

\* Line 65: !userWithPlaces || userWithPlaces.places.length === 0.
NoPlacesFound(userWithPlaces) ==
  userWithPlaces = Null \/ Len(userWithPlaces.places) = 0

\* Lines 57-74.
GetPlacesByUserIdFound(r) ==
  /\ pc[r] = "user_find"
  /\ \/ /\ Fail(r, HttpError(404))
        /\ UNCHANGED local
     \/ LET userWithPlaces == UserFindOneWithPlaces(req[r].username) IN
          /\ local' = [local EXCEPT ![r].user = userWithPlaces]
          /\ IF NoPlacesFound(userWithPlaces)
               THEN Reply(r, HttpError(404))
               ELSE Reply(r, Json(200, Prefix(<<"data">>,
                      DocPaths(userWithPlaces) \cup
                      Prefix(<<"places">>,
                             UNION {DocPaths(PlaceFindById(userWithPlaces.places[i])) :
                                      i \in 1 .. Len(userWithPlaces.places)}))))
  /\ UNCHANGED <<store, nextId, deleted, req, txn, txnOps>>

Reads(r) ==
  \/ GetAllPlacesBegin(r)
  \/ GetAllPlacesFound(r)
  \/ GetPlaceByIdBegin(r)
  \/ GetPlaceByIdFound(r)
  \/ GetPlacesByUserIdBegin(r)
  \/ GetPlacesByUserIdFound(r)

Next ==
  \E r \in Req :
    \/ createPlace(r)
    \/ updatePlace(r)
    \/ deletePlace(r)
    \/ Reads(r)
    \/ Return(r)

Spec == Init /\ [][Next]_vars

\* =================================================================== claims
Count(seq, x) == Cardinality({i \in 1 .. Len(seq) : seq[i] = x})
Range(seq) == {seq[i] : i \in 1 .. Len(seq)}
Calls(r) == {effects[r][i].call : i \in 1 .. Len(effects[r])}
Rejected(r, name) == [call |-> name, result |-> "rejected"] \in Range(effects[r])
Statuses(r) == {resp[r][i].status : i \in 1 .. Len(resp[r])}
Is(r, op) == req[r].op = op
Gone(id) ==
  /\ id \notin DOMAIN places
  /\ \A u \in DOMAIN users : id \notin Range(users[u].places)

\* C1: in every reachable state of the committed store, every Place's creator
\* names an existing User whose places holds the Place's id, and every id in
\* a User's places names an existing Place whose creator is that User.
C1_ReferentialIntegrity ==
  /\ \A id \in DOMAIN places :
       /\ places[id].creator \in DOMAIN users
       /\ id \in Range(users[places[id].creator].places)
  /\ \A u \in DOMAIN users : \A id \in Range(users[u].places) :
       /\ id \in DOMAIN places
       /\ places[id].creator = u

\* A Place has been created and is held by its creator after another Place
\* has been deleted and a request has failed.
C1_Witness ==
  /\ DOMAIN places # {}
  /\ deleted # {}
  /\ \E r \in Req : Finished(r) /\ 500 \in Statuses(r)
  /\ \E u \in DOMAIN users : users[u].places # <<>>

\* C2: the step in which createPlace commits and reports 201 leaves a stored
\* Place whose creator is the caller and whose id is in the caller's places
\* exactly once.
C2_CreateSuccess ==
  [][\A r \in Req :
       (pc[r] = "commit" /\ pc'[r] = "done" /\ 201 \in Statuses(r)')
         => /\ local[r].place._id \in DOMAIN places'
            /\ places'[local[r].place._id].creator = req[r].caller
            /\ Count(users'[req[r].caller].places, local[r].place._id) = 1]_vars

C2_Witness ==
  \E r \in Req :
    /\ Is(r, "createPlace") /\ pc[r] = "done" /\ Statuses(r) = {201}
    /\ req[r].caller = "u2"
    /\ local[r].place._id \in DOMAIN places
    /\ places[local[r].place._id].creator = "u2"
    /\ Count(users["u2"].places, local[r].place._id) = 1

\* C3: a deletePlace that has reported success leaves no Place of that id in
\* the store and no reference to it in any User's places, then and ever after.
C3_DeleteSuccess ==
  /\ \A r \in Req :
       (Is(r, "deletePlace") /\ 200 \in Statuses(r))
         => /\ req[r].pid \in deleted
            /\ local[r].place._id = req[r].pid
            /\ req[r].pid \notin Range(users[local[r].place.creator._id].places)
  /\ \A id \in deleted : Gone(id)

C3_Witness ==
  \E r \in Req :
    /\ Is(r, "deletePlace") /\ Statuses(r) = {200}
    /\ local[r].place.creator.places # <<>>
    /\ Gone(req[r].pid)

\* C4: updatePlace or deletePlace by a caller who is not the creator of the
\* Place it names never succeeds; where the handler has loaded the Place it
\* ends with 401 and nothing else; it opens no transaction, buffers no write,
\* calls no collaborator but its query, and none of its steps changes a
\* Place, a User or the image store.
Mutating(r) == Is(r, "updatePlace") \/ Is(r, "deletePlace")
Stranger(r) ==
  /\ Mutating(r)
  /\ req[r].pid \in DOMAIN places
  /\ places[req[r].pid].creator # req[r].caller
LoadedAsStranger(r) ==
  /\ Mutating(r)
  /\ local[r].place # Null
  /\ IF Is(r, "updatePlace") THEN local[r].place.creator # req[r].caller
     ELSE local[r].place.creator._id # req[r].caller

C4_Unchanged ==
  \A r \in Req :
    (pc[r] # "idle" /\ pc'[r] # pc[r] /\ Stranger(r))
      => /\ UNCHANGED store
         /\ txn'[r] = "none"
         /\ txnOps'[r] = <<>>

C4_Refused ==
  /\ \A r \in Req :
       Stranger(r) => /\ Statuses(r) \subseteq {401, 422, 404, 500}
                      /\ txn[r] = "none" /\ txnOps[r] = <<>>
                      /\ Calls(r) \subseteq {"Place.findById"}
  /\ \A r \in Req :
       LoadedAsStranger(r) => /\ pc[r] = "done"
                              /\ resp[r] = <<HttpError(401)>>
                              /\ txn[r] = "none" /\ txnOps[r] = <<>>
                              /\ Calls(r) = {"Place.findById"}

C4_NotAuthorized == []C4_Refused /\ [][C4_Unchanged]_vars

C4_Witness ==
  /\ \E r \in Req : Is(r, "deletePlace") /\ LoadedAsStranger(r)
                    /\ resp[r] = <<HttpError(401)>> /\ Stranger(r)
  /\ \E r \in Req : Is(r, "updatePlace") /\ LoadedAsStranger(r)
                    /\ resp[r] = <<HttpError(401)>> /\ Stranger(r)

\* C5: once the geocoding call of createPlace has rejected, the handler is
\* over: the upload is never called, no session or transaction is opened, no
\* write is buffered, and the rejecting step changes no Place, no User and
\* not the image store.
C5_Aborted ==
  \A r \in Req :
    Rejected(r, "getCoordinatesForAddress")
      => /\ pc[r] = "done"
         /\ Calls(r) = {"getCoordinatesForAddress"}
         /\ txn[r] = "none" /\ txnOps[r] = <<>>
         /\ local[r] = NoLocals
         /\ Len(resp[r]) = 1 /\ resp[r][1] \in GeocodeErrors

C5_Unchanged ==
  \A r \in Req :
    (pc[r] = "geocode" /\ Rejected(r, "getCoordinatesForAddress")')
      => UNCHANGED <<store, nextId>>

C5_GeocodingFails == []C5_Aborted /\ [][C5_Unchanged]_vars

C5_Witness ==
  \E r \in Req :
    /\ Is(r, "createPlace") /\ pc[r] = "done"
    /\ Rejected(r, "getCoordinatesForAddress")
    /\ "imagekit.upload" \notin Calls(r)

\* C6: once the upload of createPlace has rejected, the handler is over: no
\* query, session or transaction follows, no write is buffered, and the
\* rejecting step changes no Place and no User.
C6_Aborted ==
  \A r \in Req :
    Rejected(r, "imagekit.upload")
      => /\ pc[r] = "done"
         /\ Calls(r) = {"getCoordinatesForAddress", "imagekit.upload"}
         /\ txn[r] = "none" /\ txnOps[r] = <<>>
         /\ resp[r] = <<HttpError(500)>>

C6_Unchanged ==
  \A r \in Req :
    (pc[r] = "upload" /\ Rejected(r, "imagekit.upload")')
      => UNCHANGED <<places, users>>

C6_UploadFails == []C6_Aborted /\ [][C6_Unchanged]_vars

C6_Witness ==
  \E r \in Req :
    /\ Is(r, "createPlace") /\ pc[r] = "done"
    /\ Rejected(r, "imagekit.upload")
    /\ Calls(r) \cap {"User.findById", "startSession", "createdPlace.save"} = {}

\* C7: no outcome delivered by any handler, success or error, carries a key
\* fileId or a key password.
Secret == {"fileId", "password"}

C7_NoSecretInResponse ==
  \A r \in Req : \A i \in 1 .. Len(resp[r]) : \A path \in resp[r][i].body :
    Range(path) \cap Secret = {}

\* Each of the five handlers that answer with documents has answered with one.
C7_Witness ==
  /\ \E r \in Req : /\ Is(r, "createPlace")
                    /\ resp[r] # <<>>
                    /\ <<"place", "image", "url">> \in resp[r][1].body
  /\ \E r \in Req : /\ Is(r, "getAllPlaces")
                    /\ resp[r] # <<>>
                    /\ <<"places", "creator", "image", "url">> \in resp[r][1].body

C7_WitnessReads ==
  /\ \E r \in Req : /\ Is(r, "getPlacesByUserId")
                    /\ resp[r] # <<>>
                    /\ <<"data", "places", "image", "url">> \in resp[r][1].body
  /\ \E r \in Req : /\ req[r].op \in {"getPlaceById", "updatePlace"}
                    /\ resp[r] # <<>>
                    /\ <<"place", "image", "url">> \in resp[r][1].body

\* C8: a deletePlace whose query settles after a deletePlace of the same id
\* has been acknowledged ends there with 404 and nothing else: it changes no
\* Place, no User and not the image store, and opens no transaction.
C8_SecondDelete ==
  [][\A r \in Req :
       (pc[r] = "d_find" /\ pc'[r] # "d_find" /\ req[r].pid \in deleted)
         => /\ pc'[r] = "done"
            /\ resp'[r] = <<HttpError(404)>>
            /\ UNCHANGED <<store, deleted>>
            /\ txn'[r] = "none" /\ txnOps'[r] = <<>>
            /\ Calls(r)' = {"Place.findById"}]_vars

\* Two deletePlace requests by the same caller for the same id: one has been
\* acknowledged, the other found no Place.
C8_Witness ==
  \E r1, r2 \in Req :
    /\ r1 # r2
    /\ Is(r1, "deletePlace") /\ Is(r2, "deletePlace")
    /\ req[r1].pid = req[r2].pid /\ req[r1].caller = req[r2].caller
    /\ resp[r1] = <<Json(200, {<<"message">>})>>
    /\ resp[r2] = <<HttpError(404)>>
    /\ effects[r2] = <<[call |-> "Place.findById", result |-> "ok"]>>
    /\ local[r2].place = Null

\* C9: a deletePlace whose transaction has committed has reported success,
\* once, and the Place and the reference in its owner are gone, whatever has
\* become of the deleteFile call (still running, succeeded, failed); the
\* callback changes neither the outcome nor a document.
DeleteFileResult(r) == effects[r][Len(effects[r])]

C9_Committed ==
  \A r \in Req :
    (Is(r, "deletePlace") /\ txn[r] = "committed")
      => /\ pc[r] = "done"
         /\ resp[r] = <<Json(200, {<<"message">>})>>
         /\ DeleteFileResult(r).call = "imagekit.deleteFile"
         /\ DeleteFileResult(r).result \in {"pending", "ok", "rejected"}
         /\ Gone(req[r].pid)

C9_Callback ==
  \A r \in Req :
    (DeleteFilePending(r) /\ ~DeleteFilePending(r)' /\ pc'[r] = "done")
      => UNCHANGED <<places, users, resp, pc, deleted>>

C9_ImageDeletionIndependent == []C9_Committed /\ [][C9_Callback]_vars

C9_Witness ==
  \E r \in Req :
    /\ Is(r, "deletePlace") /\ txn[r] = "committed"
    /\ DeleteFileResult(r) = [call |-> "imagekit.deleteFile", result |-> "rejected"]
    /\ resp[r] = <<Json(200, {<<"message">>})>>
    /\ local[r].place.image.fileId \in images

\* C10 (as claimed): updatePlace whose query finds no Place ends with the
\* not-found error, 404, and nothing else.
UpdateFoundNothing(r) ==
  /\ Is(r, "updatePlace")
  /\ effects[r] = <<[call |-> "Place.findById", result |-> "ok"]>>
  /\ local[r].place = Null
  /\ pc[r] # "u_find"

C10_UpdateNotFound ==
  \A r \in Req : UpdateFoundNothing(r) => resp[r] = <<HttpError(404)>>

\* ---------------------------------------------------------------------------
\* C11. getPlacesByUserId answers the same not-found error (404) when no User
\* has the given name as when the User exists and has no Place, and answers
\* 200 only when the User exists and has at least one Place.
Owners(name) == {u \in DOMAIN users : users[u].name = name}

HasPlaces(name) ==
  \E u \in Owners(name) : \E i \in 1 .. Len(users[u].places) :
    users[u].places[i] \in DOMAIN places

C11_SameNotFound ==
  [][\A r \in Req :
       (pc[r] = "user_find" /\ pc'[r] = "done") =>
         /\ (~Rejected(r, "User.findOne")' /\ Owners(req[r].username) = {}) =>
              resp'[r] = <<HttpError(404)>>
         /\ (~Rejected(r, "User.findOne")' /\ Owners(req[r].username) # {}
               /\ ~HasPlaces(req[r].username)) =>
              resp'[r] = <<HttpError(404)>>
         /\ (200 \in Statuses(r)') =>
              /\ Owners(req[r].username) # {}
              /\ HasPlaces(req[r].username)
              /\ Len(resp'[r]) = 1]_vars

\* Both refusals side by side: a name nobody has and a User without a Place.
C11_Witness ==
  \E r1, r2 \in Req :
    /\ Is(r1, "getPlacesByUserId") /\ Is(r2, "getPlacesByUserId")
    /\ pc[r1] = "done" /\ pc[r2] = "done"
    /\ ~Rejected(r1, "User.findOne") /\ ~Rejected(r2, "User.findOne")
    /\ local[r1].user = Null
    /\ local[r2].user # Null /\ local[r2].user.places = <<>>
    /\ resp[r1] = <<HttpError(404)>> /\ resp[r2] = resp[r1]

\* ---------------------------------------------------------------------------
\* C12. The writes of a transactional scope are atomic: when a step between
\* opening the scope and its commit fails in createPlace or deletePlace, the
\* request answers 500 and has changed nothing in the committed Place and User
\* collections, neither in the failing step nor in any step before it.
TxnLabels ==
  {"session", "savePlace", "saveUser", "commit",
   "d_session", "d_remove", "d_saveUser", "d_commit"}

Transactional(r) == req[r].op \in {"createPlace", "deletePlace"}

C12_FailureIs500 ==
  \A r \in Req :
    (pc[r] \in TxnLabels /\ pc'[r] = "done" /\ txn'[r] # "committed") =>
      /\ resp'[r] = <<HttpError(500)>>
      /\ UNCHANGED <<places, users>>

C12_NoPartialWrite ==
  \A r \in Req :
    (pc'[r] # pc[r] /\ Transactional(r)' /\ txn'[r] # "committed") =>
      UNCHANGED <<places, users>>

C12_Atomic == [][C12_FailureIs500 /\ C12_NoPartialWrite]_vars

\* A creation whose Place was saved in the scope and whose user.save then
\* failed: the Place is not in the collection.
C12_Witness ==
  \E r \in Req :
    /\ Is(r, "createPlace") /\ pc[r] = "done"
    /\ Rejected(r, "user.save")
    /\ txnOps[r] = <<PlaceInsert(r)>>
    /\ local[r].place._id \notin DOMAIN places
    /\ resp[r] = <<HttpError(500)>>

\* ---------------------------------------------------------------------------
\* C13. No request finishes leaving its transactional scope open: a scope
\* opened by createPlace or deletePlace is committed or aborted by the time
\* the request has delivered its outcome.  The catch blocks of lines 157-164
\* and 256-262 report the failure without aborting, so this is violated.
C13_ScopeClosed ==
  \A r \in Req : Finished(r) => txn[r] # "open"

\* ---------------------------------------------------------------------------
\* C14. deletePlace invokes the image-store deletion only after its
\* transaction has committed: never while the scope is open, and never in a
\* request that ends with 404, 401 or 500.
CommittedBefore(r, name) ==
  \E i, j \in 1 .. Len(effects[r]) :
    /\ i < j
    /\ effects[r][i] = Sync("commitTransaction")
    /\ effects[r][j].call = name

C14_DeleteFileAfterCommit ==
  \A r \in Req :
    Is(r, "deletePlace") =>
      /\ "imagekit.deleteFile" \in Calls(r) =>
           /\ txn[r] = "committed"
           /\ CommittedBefore(r, "imagekit.deleteFile")
           /\ Count([i \in 1 .. Len(effects[r]) |-> effects[r][i].call],
                    "imagekit.deleteFile") = 1
      /\ (Statuses(r) \cap {401, 404, 500} # {}) =>
           "imagekit.deleteFile" \notin Calls(r)

\* A deletion that has committed and whose deleteFile call is running, next
\* to a deletion that failed inside its scope and never called deleteFile.
C14_Witness ==
  \E r1, r2 \in Req :
    /\ Is(r1, "deletePlace") /\ DeleteFilePending(r1)
    /\ txn[r1] = "committed"
    /\ Is(r2, "deletePlace") /\ pc[r2] = "done"
    /\ txn[r2] = "open" /\ resp[r2] = <<HttpError(500)>>
    /\ "imagekit.deleteFile" \notin Calls(r2)

\* ---------------------------------------------------------------------------
\* C15. A successful updatePlace changes only the title and the description
\* of the target Place: its other fields, every other Place, every User and
\* the image store are unchanged, and the request calls nothing but the Place
\* query and the Place save.
UpdateSucceeds(r) == pc[r] = "u_save" /\ 200 \in Statuses(r)'

C15_OnlyTitleDescription ==
  \A r \in Req :
    UpdateSucceeds(r) =>
      /\ users' = users /\ images' = images
      /\ DOMAIN places' = DOMAIN places
      /\ req[r].pid \in DOMAIN places
      /\ \A id \in DOMAIN places \ {req[r].pid} : places'[id] = places[id]
      /\ DOMAIN places'[req[r].pid] = DOMAIN places[req[r].pid]
      /\ \A k \in DOMAIN places[req[r].pid] \ {"title", "description"} :
           places'[req[r].pid][k] = places[req[r].pid][k]
      /\ Calls(r)' = {"Place.findById", "place.save"}
      /\ resp'[r] = <<Json(200, Prefix(<<"place">>, DocPaths(local[r].place)))>>

C15_OtherStepsWriteNothing ==
  \A r \in Req :
    (pc'[r] # pc[r] /\ Is(r, "updatePlace")' /\ ~UpdateSucceeds(r)) =>
      UNCHANGED store

C15_UpdateFrame ==
  [][C15_OnlyTitleDescription /\ C15_OtherStepsWriteNothing]_vars

\* An update by the creator has succeeded and the stored title is the
\* request's, while the User documents list the Place as before.
C15_Witness ==
  \E r \in Req :
    /\ Is(r, "updatePlace") /\ pc[r] = "done" /\ Statuses(r) = {200}
    /\ req[r].pid \in DOMAIN places
    /\ places[req[r].pid].title = req[r].body.title
    /\ places[req[r].pid].title # local[r].place.title
    /\ places[req[r].pid].creator = req[r].caller
    /\ places[req[r].pid].image.fileId = FileId(req[r].pid)

\* ---------------------------------------------------------------------------
\* C16. Every createPlace, updatePlace and deletePlace request that has ended
\* has delivered exactly one outcome, one response or one error.  An
\* updatePlace for an id without a Place throws at line 195 and can end having
\* delivered nothing, so this is violated.
C16_ExactlyOneOutcome ==
  \A r \in Req :
    (Finished(r) /\ req[r].op \in {"createPlace", "updatePlace", "deletePlace"}) =>
      Len(resp[r]) = 1

\* ---------------------------------------------------------------------------
\* C17. A createPlace whose caller is not an existing User and that is
\* answered CreatorNotFound (404) has had no side effect: no image was
\* uploaded and no document written.  The upload of lines 101-120 runs before
\* the lookup of lines 131-148, so this is violated.
C17_NoSideEffect ==
  \A r \in Req :
    (Is(r, "createPlace") /\ req[r].caller \notin DOMAIN users
       /\ Statuses(r) = {404}) =>
      /\ "imagekit.upload" \notin Calls(r)
      /\ txnOps[r] = <<>>

\* ---------------------------------------------------------------------------
\* C18. No update of a User's places is lost when createPlace and deletePlace
\* requests of that User interleave: each commit adds or removes exactly its
\* own id on the places stored at that moment, so every User's places holds
\* exactly the ids of that User's existing Places, and two creations that
\* both succeeded are both listed (unless deleted since).
Created(r) == Is(r, "createPlace") /\ Statuses(r) = {201}

C18_ExactlyExisting ==
  /\ \A u \in DOMAIN users :
       /\ Range(users[u].places) = {id \in DOMAIN places : places[id].creator = u}
       /\ \A id \in Range(users[u].places) : Count(users[u].places, id) = 1
  /\ \A r1, r2 \in Req :
       (r1 # r2 /\ Created(r1) /\ Created(r2) /\ req[r1].caller = req[r2].caller) =>
         \A id \in {local[r1].place._id, local[r2].place._id} :
           id \in Range(users[req[r1].caller].places) \/ id \in deleted

C18_CommitIsDelta ==
  \A r \in Req :
    (txn[r] = "open" /\ txn'[r] = "committed") =>
      LET u == IF Is(r, "createPlace") THEN local[r].user._id
               ELSE local[r].place.creator._id IN
        /\ \A v \in DOMAIN users \ {u} : users'[v] = users[v]
        /\ users'[u].places =
             IF Is(r, "createPlace")
               THEN Append(users[u].places, local[r].place._id)
               ELSE Without(users[u].places, local[r].place._id)

C18_NoLostUpdate == []C18_ExactlyExisting /\ [][C18_CommitIsDelta]_vars

\* Two creations by one User that each loaded the User before the other
\* committed have both succeeded, and both ids are in the User's places.
C18_Witness ==
  \E r1, r2 \in Req :
    /\ r1 # r2 /\ Created(r1) /\ Created(r2)
    /\ req[r1].caller = req[r2].caller
    /\ local[r1].user.places = <<>> /\ local[r2].user.places = <<>>
    /\ Range(users[req[r1].caller].places) =
         {local[r1].place._id, local[r2].place._id}

\* ---------------------------------------------------------------------------
\* C19. Of two deletePlace requests for one Place that both loaded it before
\* either committed, at most one reports success, and deleteFile is invoked at
\* most once for the Place's image.  place.remove and the $pull of a request
\* that comes second match nothing and do not fail, so its commit succeeds
\* too and this is violated.
LoadedSamePlace(r1, r2) ==
  /\ r1 # r2
  /\ Is(r1, "deletePlace") /\ Is(r2, "deletePlace")
  /\ req[r1].pid = req[r2].pid
  /\ local[r1].place # Null /\ local[r2].place # Null

C19_AtMostOneDelete ==
  \A r1, r2 \in Req :
    LoadedSamePlace(r1, r2) =>
      /\ ~(200 \in Statuses(r1) /\ 200 \in Statuses(r2))
      /\ ~("imagekit.deleteFile" \in Calls(r1) /\ "imagekit.deleteFile" \in Calls(r2))

====
